---- MODULE Spec2Model ----
(***************************************************************************)
(* Marking-code allocation (src/script.py, src/sku_qtin_outer_level2.py)   *)
(* and aggregation (src/txt/agregate.py).                                  *)
(*                                                                         *)
(* Spreadsheet cells are pairs <<type, value>>:                            *)
(*   <<"nan", 0>>  an empty cell (pandas NaN)                              *)
(*   <<"num", k>>  a numeric cell                                          *)
(*   <<"str", k>>  a text cell (GTIN digits k, or buyer key number k)      *)
(*   <<"txt", 0>>  the text 'nan' that str() makes of an empty cell        *)
(* A marking code is <<"code", p>>, p the record's line in the code file;  *)
(* Python's None is <<"None", 0>>.                                         *)
(***************************************************************************)
EXTENDS Integers, Sequences, FiniteSets, TLC

VARIABLES
    rev,           \* which revision runs: "script" or "sku"
    qr_xlsx,       \* the code file on disk (rows of cells)
    fort_qr,       \* DataFrame returned by load_data
    pc,            \* position of the run
    row_pos,       \* next row of master_file.iterrows()
    master_row,    \* the row _process_master_row last worked on
    unit_pool,     \* pack_rows: the unit-level rows selected for master_row
    output_df,     \* self.output_df, rows labelled 0..
    row_index,     \* process_data's row_index
    exc,           \* the exception raised, NoExc if none
    workbook,      \* rows written by save_to_excel, NoFile if never written
    qr_reads,      \* how many times the code file was read
    call,          \* a single call of one function: its arguments, its result
    agg            \* txt/agregate.py: the locals of main, the file it writes

vars == <<rev, qr_xlsx, fort_qr, pc, row_pos, master_row, unit_pool,
          output_df, row_index, exc, workbook, qr_reads, call,
          agg>>

----------------------------------------------------------------------------
(* Bounds of the model *)

MaxCodes == 4
MaxEntries == 2
MaxSize == 2

(* IEEE-754 double: significand bits of a Python float *)
MantissaBits == 53

----------------------------------------------------------------------------
(* Values *)

NaN == <<"nan", 0>>
None == <<"None", 0>>
(* An exception: its class and, for the ValueError of a divisibility   *)
(* check, what its message reports                                     *)
Exception(kind) ==
    [kind |-> kind, check |-> "none", gtin |-> None, total |-> 0,
     capacity |-> None, remainder |-> 0]
NoExc == Exception("none")
NoFile == <<[file |-> "none"]>>
NoCall == [fn |-> "none"]
NoAgg == [fn |-> "none"]
NoRow == [GTIN |-> NaN, GTIN_Outer |-> NaN, GTIN_Case |-> NaN,
          SIZE5 |-> NaN, SIZE2 |-> NaN, SKU |-> NaN]

notna(x) == x[1] # "nan"

(* pandas ==: NaN equals nothing, a number never equals a text *)
CellEq(a, b) == notna(a) /\ notna(b) /\ a = b

(* lambda x: str(int(x)) if pd.notna(x) else x *)
GtinToString(x) == IF notna(x) THEN <<"str", x[2]>> ELSE x

(* .astype(str) / str(x): an empty cell becomes the text 'nan' *)
AsStr(x) == IF x[1] = "nan" THEN <<"txt", 0>>
            ELSE IF x[1] = "txt" THEN x ELSE <<"str", x[2]>>

Min(a, b) == IF a < b THEN a ELSE b

(* df[df['GTIN'] == gtin]: the rows tagged gtin, in the frame's order *)
RowsWithGtin(df, gtin) == SelectSeq(df, LAMBDA r : CellEq(r.GTIN, gtin))

----------------------------------------------------------------------------
(* Python arithmetic on a capacity that is an int or float('inf') *)

Inf == <<"inf", 0>>
IsInf(size) == size[1] = "inf"

(* int(row[col]) if pd.notna(row[col]) else float('inf') *)
PackageSize(cell) == IF notna(cell) THEN <<"int", cell[2]>> ELSE Inf

(* total // size: an int for an int size, the float 0.0 for inf *)
FloorDiv(total, size) ==
    IF IsInf(size) THEN <<"float", 0>> ELSE <<"int", total \div size[2]>>

(* total % size: for inf the float total itself *)
Mod(total, size) == IF IsInf(size) THEN total ELSE total % size[2]

(* The double nearest to g / c is above g / c: long division of g by c   *)
(* to MantissaBits significant bits, then round to nearest, ties to even *)
RECURSIVE ScaleUp(_, _)
ScaleUp(g, c) == IF g < c THEN ScaleUp(2 * g, c) ELSE g

RECURSIVE ScaleDown(_, _)
ScaleDown(g, c) == IF g >= 2 * c THEN ScaleDown(g, 2 * c) ELSE c

RECURSIVE DivBits(_, _, _, _)
DivBits(rem, bit, den, k) ==
    IF k = 0 THEN <<rem, bit>>
    ELSE LET t == 2 * rem
         IN  IF t >= den THEN DivBits(t - den, 1, den, k - 1)
                         ELSE DivBits(t, 0, den, k - 1)

RoundsUp(g, c) ==
    LET num  == ScaleUp(g, c)
        den  == ScaleDown(num, c)
        last == DivBits(num - den, 1, den, MantissaBits - 1)
    IN  \/ 2 * last[1] > den
        \/ 2 * last[1] = den /\ last[2] = 1

(* int(chunk_num // (size2 / size5)): Python's float floor division is  *)
(* the exact floor of chunk_num over the double size2 / size5           *)
FloatFloorDiv(chunk_num, size5, size2) ==
    IF IsInf(size2) THEN 0
    ELSE LET c == size5[2]
             g == size2[2]
             exact == (chunk_num * c) \div g
         IN  IF chunk_num > 0 /\ (chunk_num * c) % g = 0 /\ RoundsUp(g, c)
             THEN exact - 1
             ELSE exact

----------------------------------------------------------------------------
(* The output frame *)

OutputRow(pack_row, identification_outer, identification_case) ==
    [identificationCode       |-> pack_row.identificationCode,
     identificationCodeOuter  |-> identification_outer,
     identificationCodeCase   |-> identification_case,
     identificationCodePallet |-> None]

(* output_df.loc[label] = row: overwrite the row labelled label, or add it *)
SetLoc(df, label, row) ==
    IF label + 1 \in DOMAIN df THEN [df EXCEPT ![label + 1] = row]
                               ELSE Append(df, row)

(* Slip: the slice's end taken as its last index *)
GetChunkEndInclusive(pack_rows, chunk_num, size5) ==
    SubSeq(pack_rows, chunk_num * size5 + 1,
           Min((chunk_num + 1) * size5 - 1, Len(pack_rows)))

(* pack_rows.iloc[chunk_num * size5 : (chunk_num + 1) * size5] *)
GetChunk(pack_rows, chunk_num, size5) ==
    SubSeq(pack_rows, chunk_num * size5 + 1,
           Min((chunk_num + 1) * size5, Len(pack_rows)))

(* for _, pack_row in chunk.iterrows(): output_df.loc[row_index] = ... *)
RECURSIVE AddChunkToOutput(_, _, _, _, _)
AddChunkToOutput(df, chunk, identification_outer, identification_case, idx) ==
    IF chunk = <<>> THEN [df |-> df, idx |-> idx]
    ELSE AddChunkToOutput(
             SetLoc(df, idx, OutputRow(Head(chunk), identification_outer,
                                       identification_case)),
             Tail(chunk), identification_outer, identification_case, idx + 1)

----------------------------------------------------------------------------
(* src/script.py *)

(* rows['identificationCode'].iloc[index] if index < len(rows) else None *)
GetIdentificationCode(frame, gtin, index) ==
    LET rows == RowsWithGtin(frame, gtin)
    IN  IF index < Len(rows) THEN rows[index + 1].identificationCode ELSE None

GetCaseIdentificationCode(case_rows, chunk_num, size5, size2) ==
    LET case_index == FloatFloorDiv(chunk_num, size5, size2)
    IN  IF case_index < Len(case_rows)
        THEN case_rows[case_index + 1].identificationCode
        ELSE None

(* Slip: the master-case check made before the remainder check *)
ValidateDistributionMasterFirst(pack_rows, case_rows, size5, size2, gtin_case, remainder) ==
    IF Mod(Len(pack_rows), size2) # 0
    THEN [Exception("ValueError") EXCEPT
             !.check = "master", !.gtin = gtin_case, !.total = Len(case_rows),
             !.capacity = size2, !.remainder = Mod(Len(pack_rows), size2)]
    ELSE IF remainder > 0
    THEN [Exception("ValueError") EXCEPT
             !.check = "case", !.gtin = gtin_case, !.total = Len(pack_rows),
             !.capacity = size5, !.remainder = remainder]
    ELSE NoExc

(* The ValueError of _validate_distribution, NoExc when both checks pass *)
ValidateDistribution(pack_rows, case_rows, size5, size2, gtin_case, remainder) ==
    IF remainder > 0
    THEN [Exception("ValueError") EXCEPT
             !.check = "case", !.gtin = gtin_case, !.total = Len(pack_rows),
             !.capacity = size5, !.remainder = remainder]
    ELSE IF Mod(Len(pack_rows), size2) # 0
    THEN [Exception("ValueError") EXCEPT
             !.check = "master", !.gtin = gtin_case, !.total = Len(case_rows),
             !.capacity = size2, !.remainder = Mod(Len(pack_rows), size2)]
    ELSE NoExc

(* for chunk_num in range(full_chunks), from chunk_num on *)
RECURSIVE ProcessChunksFrom(_, _, _, _, _, _, _, _, _, _)
ProcessChunksFrom(chunk_num, full_chunks, pack_rows, case_rows, fort_qr_outer, gtin_outer, size5, size2, df, idx) ==
    IF chunk_num >= full_chunks THEN [df |-> df, idx |-> idx]
    ELSE LET chunk == GetChunk(pack_rows, chunk_num, size5[2])
             identification_outer ==
                 GetIdentificationCode(fort_qr_outer, gtin_outer, chunk_num)
             identification_case ==
                 GetCaseIdentificationCode(case_rows, chunk_num, size5, size2)
             added == AddChunkToOutput(df, chunk, identification_outer,
                                       identification_case, idx)
         IN  ProcessChunksFrom(chunk_num + 1, full_chunks, pack_rows,
                               case_rows, fort_qr_outer, gtin_outer, size5,
                               size2, added.df, added.idx)

(* _process_chunks: reads the code file again, then range(full_chunks),  *)
(* a TypeError when full_chunks is the float 0.0                         *)
ProcessChunks(pack_rows, case_rows, row, full_chunks, size5, size2, df, idx, file) ==
    IF full_chunks[1] = "float"
    THEN [df |-> df, idx |-> idx, exc |-> Exception("TypeError")]
    ELSE LET done == ProcessChunksFrom(0, full_chunks[2], pack_rows, case_rows,
                                       file, row.GTIN_Outer, size5, size2,
                                       df, idx)
         IN  [df |-> done.df, idx |-> done.idx, exc |-> NoExc]

(* _process_master_row: the frame, the row index and the exception after *)
(* one master row; reread tells whether the code file was read again     *)
ScriptProcessMasterRow(row, frame, file, df, idx) ==
    LET pack_rows   == RowsWithGtin(frame, row.GTIN)
        case_rows   == RowsWithGtin(frame, row.GTIN_Case)
        size5       == PackageSize(row.SIZE5)
        size2       == PackageSize(row.SIZE2)
        full_chunks == FloorDiv(Len(pack_rows), size5)
        remainder   == Mod(Len(pack_rows), size5)
        error       == ValidateDistribution(pack_rows, case_rows, size5, size2,
                                            row.GTIN_Case, remainder)
    IN  IF error # NoExc
        THEN [df |-> df, idx |-> idx, exc |-> error, reread |-> FALSE,
              pack |-> pack_rows]
        ELSE LET r == ProcessChunks(pack_rows, case_rows, row, full_chunks,
                                    size5, size2, df, idx, file)
             IN  [df |-> r.df, idx |-> r.idx, exc |-> r.exc, reread |-> TRUE,
                  pack |-> pack_rows]

----------------------------------------------------------------------------
(* src/sku_qtin_outer_level2.py *)

(* Slip: the buyer key compared only when both sides carry one *)
SkuPackRowsLenient(frame, current_gtin_pack, current_sku) ==
    SelectSeq(frame, LAMBDA r : /\ CellEq(r.GTIN, current_gtin_pack)
                                /\ \/ AsStr(r.buyerSKU) = <<"txt", 0>>
                                   \/ current_sku = <<"txt", 0>>
                                   \/ CellEq(AsStr(r.buyerSKU), current_sku))

(* fort_qr[(fort_qr['GTIN'] == current_gtin_pack) &                       *)
(*         (fort_qr['buyerSKU'].astype(str).str.strip() == current_sku)]  *)
SkuPackRows(frame, current_gtin_pack, current_sku) ==
    SelectSeq(frame, LAMBDA r : /\ CellEq(r.GTIN, current_gtin_pack)
                                /\ CellEq(AsStr(r.buyerSKU), current_sku))

(* outer_rows['identificationCode'].iloc[chunk_num]                      *)
(*     if not outer_rows.empty else None; .iloc raises IndexError        *)
SkuIdentificationOuter(outer_rows, chunk_num) ==
    IF outer_rows = <<>> THEN [exc |-> NoExc, code |-> None]
    ELSE IF chunk_num < Len(outer_rows)
    THEN [exc |-> NoExc, code |-> outer_rows[chunk_num + 1].identificationCode]
    ELSE [exc |-> Exception("IndexError"), code |-> None]

(* for chunk_num in range(full_chunks), from chunk_num on *)
RECURSIVE SkuChunksFrom(_, _, _, _, _, _, _)
SkuChunksFrom(chunk_num, full_chunks, pack_rows, outer_rows, size5, df, idx) ==
    IF chunk_num >= full_chunks
    THEN [df |-> df, idx |-> idx, exc |-> NoExc]
    ELSE LET chunk == GetChunk(pack_rows, chunk_num, size5[2])
             outer == SkuIdentificationOuter(outer_rows, chunk_num)
             added == AddChunkToOutput(df, chunk, outer.code, None, idx)
         IN  IF outer.exc # NoExc
             THEN [df |-> df, idx |-> idx, exc |-> outer.exc]
             ELSE SkuChunksFrom(chunk_num + 1, full_chunks, pack_rows,
                                outer_rows, size5, added.df, added.idx)

(* Slip: a missing unit GTIN treated as an error *)
SkuSkipRaises(df, idx) ==
    [df |-> df, idx |-> idx, exc |-> Exception("ValueError"),
     reread |-> FALSE, pack |-> <<>>]

(* continue: the row is passed over with a warning *)
SkuSkip(df, idx) ==
    [df |-> df, idx |-> idx, exc |-> NoExc, reread |-> FALSE, pack |-> <<>>]

(* One pass of the loop of process_data over master_file *)
SkuProcessMasterRow(row, frame, df, idx) ==
    LET current_gtin      == row.GTIN_Outer
        current_sku       == AsStr(row.SKU)
        current_gtin_pack == IF notna(row.GTIN) THEN AsStr(row.GTIN) ELSE None
        pack_rows   == SkuPackRows(frame, current_gtin_pack, current_sku)
        size5       == PackageSize(row.SIZE5)
        total_rows  == Len(pack_rows)
        full_chunks == FloorDiv(total_rows, size5)
        remainder   == Mod(total_rows, size5)
        outer_rows  == RowsWithGtin(frame, row.GTIN_Outer)
    IN  IF current_gtin_pack = None \/ current_gtin_pack = <<"txt", 0>>
        THEN SkuSkip(df, idx)
        ELSE IF remainder > 0
        THEN [df |-> df, idx |-> idx, reread |-> FALSE, pack |-> pack_rows,
              exc |-> [Exception("ValueError") EXCEPT
                          !.check = "case", !.gtin = current_gtin,
                          !.total = total_rows, !.capacity = size5,
                          !.remainder = remainder]]
        ELSE IF full_chunks[1] = "float"
        THEN [df |-> df, idx |-> idx, exc |-> Exception("TypeError"),
              reread |-> FALSE, pack |-> pack_rows]
        ELSE LET r == SkuChunksFrom(0, full_chunks[2], pack_rows, outer_rows,
                                    size5, df, idx)
             IN  [df |-> r.df, idx |-> r.idx, exc |-> r.exc, reread |-> FALSE,
                  pack |-> pack_rows]

----------------------------------------------------------------------------
(* load_data *)

(* A row of the master file as load_data returns it: GTIN columns by     *)
(* str(int(x)); the sku revision converts GTIN and GTIN Outer only       *)
LoadMasterRow(revision, r) ==
    [r EXCEPT !.GTIN       = GtinToString(@),
              !.GTIN_Outer = GtinToString(@),
              !.GTIN_Case  = IF revision = "script" THEN GtinToString(@) ELSE @]

(* master_file[master_file['SIZE5'].notna()]: the rows load_data keeps *)
KeptByLoad(r) == notna(r.SIZE5)

(* The code file as pd.read_excel returns it *)
ReadFortQr(file) == file

(* fort_qr['GTIN'] converted by str(int(x)) *)
ConvertGtinToString(frame) ==
    [i \in DOMAIN frame |-> [frame[i] EXCEPT !.GTIN = GtinToString(@)]]

(* sku revision, head of process_data: buyerSKU and GTIN .astype(str) *)
SkuAsTypeStr(frame) ==
    [i \in DOMAIN frame |-> [frame[i] EXCEPT !.GTIN = AsStr(@),
                                             !.buyerSKU = AsStr(@)]]

----------------------------------------------------------------------------
(* Inputs *)

SeqsUpTo(S, n) == UNION {[1..k -> S] : k \in 0..n}

Sizes == {NaN} \cup {<<"num", k>> : k \in 1..MaxSize}

(* The GTIN of each packaging level of the one product, two buyer keys *)
Gtins == [unit |-> 1, outer |-> 2, case |-> 3]
Keys == [a |-> 1, b |-> 2]

(* Rows of the master file. script.py never reads the SKU column, the  *)
(* sku revision never reads SIZE2 or GTIN Case: those cells are left   *)
(* empty                                                               *)
MasterRows(revision) ==
    [GTIN       : {NaN, <<"num", Gtins.unit>>},
     GTIN_Outer : {<<"num", Gtins.outer>>},
     GTIN_Case  : IF revision = "script" THEN {<<"num", Gtins.case>>} ELSE {NaN},
     SIZE5      : Sizes,
     SIZE2      : IF revision = "script" THEN Sizes ELSE {NaN},
     SKU        : IF revision = "script" THEN {NaN}
                  ELSE {NaN, <<"str", Keys.a>>, <<"str", Keys.b>>}]

(* A line of the code file: its GTIN cell typed as the column is.       *)
(* script.py never reads buyerSKU; the sku revision never looks for     *)
(* GTIN Case codes, and puts a buyer key on unit codes only             *)
QrLines(revision, dtype) ==
    IF revision = "script"
    THEN {[GTIN |-> <<dtype, g>>, buyerSKU |-> NaN] :
              g \in {Gtins.unit, Gtins.outer, Gtins.case}}
    ELSE {[GTIN |-> <<dtype, Gtins.unit>>, buyerSKU |-> k] :
              k \in {NaN, <<"str", Keys.a>>}}
         \cup {[GTIN |-> <<dtype, Gtins.outer>>, buyerSKU |-> NaN]}

(* The marking code of line p is the line's own *)
WithCodes(lines) ==
    [p \in DOMAIN lines |->
        [GTIN |-> lines[p].GTIN, buyerSKU |-> lines[p].buyerSKU,
         identificationCode |-> <<"code", p>>]]

(* Code files: the GTIN column numeric or text; the sku revision never  *)
(* looks at the column's type again after load_data                     *)
QrFiles(revision) ==
    {WithCodes(l) : l \in SeqsUpTo(QrLines(revision, "num"), MaxCodes)}
    \cup IF revision = "script"
         THEN {WithCodes(l) : l \in SeqsUpTo(QrLines(revision, "str"), MaxCodes)}
         ELSE {}

Init ==
    /\ rev \in {"script", "sku"}
    /\ qr_xlsx \in QrFiles(rev)
    /\ fort_qr = <<>>
    /\ pc = "start"
    /\ row_pos = 0
    /\ master_row = NoRow
    /\ unit_pool = <<>>
    /\ output_df = <<>>
    /\ row_index = 0
    /\ exc = NoExc
    /\ workbook = NoFile
    /\ qr_reads = 0
    /\ call = NoCall
    /\ agg = NoAgg

----------------------------------------------------------------------------
(* The run: generate_specification (script.py), run (sku revision) *)

LoadData ==
    /\ pc = "start"
    /\ fort_qr' = ConvertGtinToString(ReadFortQr(qr_xlsx))
    /\ qr_reads' = qr_reads + 1
    /\ pc' = "loaded"
    /\ UNCHANGED <<rev, qr_xlsx, row_pos, master_row, unit_pool, output_df,
                   row_index, exc, workbook, call, agg>>

(* process_data up to its loop *)
ProcessDataBegin ==
    /\ pc = "loaded"
    /\ fort_qr' = IF rev = "sku" THEN SkuAsTypeStr(fort_qr) ELSE fort_qr
    /\ row_index' = 0
    /\ row_pos' = 1
    /\ pc' = "iter"
    /\ UNCHANGED <<rev, qr_xlsx, master_row, unit_pool, output_df, exc,
                   workbook, qr_reads, call, agg>>

(* What one pass of process_data's loop makes of row *)
MasterRowResult(row) ==
    IF rev = "script"
    THEN ScriptProcessMasterRow(row, fort_qr, ReadFortQr(qr_xlsx), output_df,
                                row_index)
    ELSE SkuProcessMasterRow(row, fort_qr, output_df, row_index)

(* One pass of process_data's loop: iterrows() yields the next row that *)
(* load_data kept of the master file                                    *)
ProcessMasterRow ==
    /\ pc = "iter"
    /\ row_pos <= MaxEntries
    /\ \E raw \in {m \in MasterRows(rev) : KeptByLoad(m)} :
       \E row \in {LoadMasterRow(rev, raw)} :
       \E r \in {MasterRowResult(row)} :
          /\ master_row' = row
          /\ unit_pool' = r.pack
          /\ output_df' = r.df
          /\ row_index' = r.idx
          /\ exc' = r.exc
          /\ qr_reads' = IF r.reread THEN qr_reads + 1 ELSE qr_reads
          /\ row_pos' = IF r.exc = NoExc THEN row_pos + 1 ELSE row_pos
          /\ pc' = IF r.exc = NoExc THEN "iter" ELSE "raised"
    /\ UNCHANGED <<rev, qr_xlsx, fort_qr, workbook, call, agg>>

(* The loop ends, process_data returns; save_to_excel writes output_df *)
SaveToExcel ==
    /\ pc = "iter"
    /\ workbook' = output_df
    /\ pc' = "done"
    /\ UNCHANGED <<rev, qr_xlsx, fort_qr, row_pos, master_row, unit_pool,
                   output_df, row_index, exc, qr_reads, call, agg>>

(* Slip: the handler writes what was allocated before the failure *)
ExceptThenSave ==
    /\ pc = "raised"
    /\ pc' = "failed"
    /\ workbook' = output_df
    /\ UNCHANGED <<rev, qr_xlsx, fort_qr, row_pos, master_row, unit_pool,
                   output_df, row_index, exc, qr_reads, call, agg>>

(* The exception leaves process_data: script.py prints it and returns   *)
(* None, the sku revision prints a ValueError and raises again          *)
Except ==
    /\ pc = "raised"
    /\ pc' = "failed"
    /\ UNCHANGED <<rev, qr_xlsx, fort_qr, row_pos, master_row, unit_pool,
                   output_df, row_index, exc, workbook, qr_reads, call, agg>>

Next == LoadData \/ ProcessDataBegin \/ ProcessMasterRow \/ SaveToExcel \/ Except

Spec == Init /\ [][Next]_vars

----------------------------------------------------------------------------
(* One pass of the loop of _process_chunks taken on its own: the case   *)
(* sizes, the chunk number and the GTIN Case pool are free              *)

MaxCap == 5
MaxChunk == 5
MaxPool == 6

(* The rows of the code file that carry GTIN Case, p of them *)
CaseRows(p) ==
    [k \in 1..p |-> [GTIN |-> <<"str", Gtins.case>>, buyerSKU |-> NaN,
                     identificationCode |-> <<"case", k>>]]

(* The rows chunk chunk_num holds of a pool cut by size5 *)
ChunkRows(chunk_num, size5) ==
    [k \in 1..size5 |-> [GTIN |-> <<"str", Gtins.unit>>, buyerSKU |-> NaN,
                         identificationCode
                             |-> <<"code", chunk_num * size5 + k>>]]

ChunkCalls ==
    {[fn        |-> "_process_chunks",
      case_rows |-> CaseRows(p),
      chunk_num |-> i,
      size5     |-> <<"int", c>>,
      size2     |-> <<"int", g>>,
      returned  |-> FALSE,
      rows      |-> <<>>] :
        p \in 0..MaxPool, i \in 0..MaxChunk, c \in 1..MaxCap, g \in 1..MaxCap}

InitChunk ==
    /\ rev = "script"
    /\ qr_xlsx = <<>>
    /\ fort_qr = <<>>
    /\ pc = "call"
    /\ row_pos = 0
    /\ master_row = NoRow
    /\ unit_pool = <<>>
    /\ output_df = <<>>
    /\ row_index = 0
    /\ exc = NoExc
    /\ workbook = NoFile
    /\ qr_reads = 0
    /\ call \in ChunkCalls
    /\ agg = NoAgg

(* The body of the loop for chunk_num: the case code is looked up and   *)
(* the chunk's rows are added to an empty frame                         *)
ProcessChunk ==
    /\ pc = "call"
    /\ call.fn = "_process_chunks"
    /\ ~call.returned
    /\ LET identification_case ==
               GetCaseIdentificationCode(call.case_rows, call.chunk_num,
                                         call.size5, call.size2)
           added == AddChunkToOutput(<<>>,
                                     ChunkRows(call.chunk_num, call.size5[2]),
                                     None, identification_case, 0)
       IN  call' = [call EXCEPT !.returned = TRUE, !.rows = added.df]
    /\ UNCHANGED <<rev, qr_xlsx, fort_qr, pc, row_pos, master_row, unit_pool,
                   output_df, row_index, exc, workbook, qr_reads, agg>>

NextChunk == ProcessChunk

SpecChunk == InitChunk /\ [][NextChunk]_vars

----------------------------------------------------------------------------
(* src/txt/agregate.py. A code is a sequence of characters; GS stands   *)
(* for the one character 0x1D                                           *)

LP_TIN == "9726009063"
PackCodeLen == 25
CisLen == 21

GS == "GS"

(* ord(char), for the characters a code is read with: NUL, GS, US and   *)
(* DEL stand for the characters 0x00, 0x1D, 0x1F and 0x7F               *)
ord(char) ==
    CASE char = "NUL" -> 0
      [] char = GS    -> 29
      [] char = "US"  -> 31
      [] char = " "   -> 32
      [] char = "&"   -> 38
      [] char = "a"   -> 97
      [] char = "b"   -> 98
      [] char = "~"   -> 126
      [] char = "DEL" -> 127
      [] char = "e'"  -> 233

(* str.strip() takes 0x1C..0x1F for white space as well *)
WhiteSpace == {" ", GS, "US"}

(* Slip: > 0x20 for >= 0x20, the space is lost *)
RECURSIVE clean_code_above_space(_)
clean_code_above_space(code) ==
    IF code = <<>> THEN <<>>
    ELSE (IF ord(Head(code)) > 32 /\ ord(Head(code)) # 127
          THEN <<Head(code)>> ELSE <<>>)
         \o clean_code_above_space(Tail(code))

(* ''.join(char for char in code if ord(char) >= 0x20 and ord(char) != 0x7F) *)
RECURSIVE clean_code(_)
clean_code(code) ==
    IF code = <<>> THEN <<>>
    ELSE (IF ord(Head(code)) >= 32 /\ ord(Head(code)) # 127
          THEN <<Head(code)>> ELSE <<>>)
         \o clean_code(Tail(code))

RECURSIVE LStrip(_)
LStrip(line) ==
    IF line # <<>> /\ Head(line) \in WhiteSpace THEN LStrip(Tail(line))
    ELSE line

RECURSIVE RStrip(_)
RStrip(line) ==
    IF line # <<>> /\ line[Len(line)] \in WhiteSpace
    THEN RStrip(SubSeq(line, 1, Len(line) - 1))
    ELSE line

Strip(line) == RStrip(LStrip(line))

(* read_codes of a .txt file:                                           *)
(* [clean_code(line.strip()) for line in f if line.strip()]             *)
RECURSIVE read_codes(_)
read_codes(lines) ==
    IF lines = <<>> THEN <<>>
    ELSE IF Strip(Head(lines)) = <<>> THEN read_codes(Tail(lines))
    ELSE <<clean_code(Strip(Head(lines)))>> \o read_codes(Tail(lines))

(* xml.sax.saxutils.escape *)
RECURSIVE escape(_)
escape(text) ==
    IF text = <<>> THEN <<>>
    ELSE (CASE Head(text) = "&" -> <<"&", "a", "m", "p", ";">>
            [] Head(text) = "<" -> <<"&", "l", "t", ";">>
            [] Head(text) = ">" -> <<"&", "g", "t", ";">>
            [] OTHER            -> <<Head(text)>>)
         \o escape(Tail(text))

(* code[:n] *)
Take(code, n) == SubSeq(code, 1, Min(n, Len(code)))

(* str(i) *)
RECURSIVE Decimal(_)
Decimal(i) ==
    LET digit == <<"0", "1", "2", "3", "4", "5", "6", "7", "8", "9">>
    IN  IF i < 10 THEN <<digit[i + 1]>>
        ELSE Decimal(i \div 10) \o <<digit[(i % 10) + 1]>>

(* f"__CDATA_CIS_{cis_index}__" *)
Placeholder(cis_index) ==
    <<"_", "_", "C", "D", "A", "T", "A", "_", "C", "I", "S", "_">>
    \o Decimal(cis_index) \o <<"_", "_">>

(* f"<![CDATA[{original_code}]]>" *)
CData(original_code) ==
    <<"<", "!", "[", "C", "D", "A", "T", "A", "[">> \o original_code
    \o <<"]", "]", ">">>

AggError(check, items, groups) ==
    [kind |-> "ValueError", check |-> check, items |-> items,
     groups |-> groups]
NoAggError == [kind |-> "none", check |-> "none", items |-> 0, groups |-> 0]

(* Slip: only the empty block file is refused *)
CheckBoxesEmptyOnly(middle_boxes, small_boxes) ==
    IF Len(middle_boxes) = 0
    THEN AggError("empty", Len(small_boxes), Len(middle_boxes))
    ELSE NoAggError

(* Slip: the divisibility check made first, its % dividing by zero *)
CheckBoxesUnevenFirst(middle_boxes, small_boxes) ==
    IF Len(middle_boxes) = 0
    THEN [AggError("none", Len(small_boxes), 0) EXCEPT
             !.kind = "ZeroDivisionError"]
    ELSE IF Len(small_boxes) % Len(middle_boxes) # 0
    THEN AggError("uneven", Len(small_boxes), Len(middle_boxes))
    ELSE NoAggError

(* The two raises that open create_aggregation_xml *)
CheckBoxes(middle_boxes, small_boxes) ==
    IF Len(middle_boxes) = 0
    THEN AggError("empty", Len(small_boxes), Len(middle_boxes))
    ELSE IF Len(small_boxes) % Len(middle_boxes) # 0
    THEN AggError("uneven", Len(small_boxes), Len(middle_boxes))
    ELSE NoAggError

(* cdata_map[key] = value: a dict keeps the order of first insertion *)
DictSet(cdata_map, key, value) ==
    IF \E n \in DOMAIN cdata_map : cdata_map[n].placeholder = key
    THEN [n \in DOMAIN cdata_map |->
             IF cdata_map[n].placeholder = key
             THEN [placeholder |-> key, original_code |-> value]
             ELSE cdata_map[n]]
    ELSE Append(cdata_map, [placeholder |-> key, original_code |-> value])

(* Slip: the stop taken one code early *)
RECURSIVE CisLoopStopsEarly(_, _, _, _, _, _)
CisLoopStopsEarly(count, kis_per_block, small_boxes, cis, cdata_map, cis_index) ==
    IF count >= kis_per_block
    THEN [cis |-> cis, cdata_map |-> cdata_map, cis_index |-> cis_index,
          exhausted |-> FALSE]
    ELSE IF cis_index + 1 >= Len(small_boxes)
    THEN [cis |-> cis, cdata_map |-> cdata_map, cis_index |-> cis_index,
          exhausted |-> TRUE]
    ELSE CisLoopStopsEarly(count + 1, kis_per_block, small_boxes,
                 Append(cis, Placeholder(cis_index)),
                 DictSet(cdata_map, Placeholder(cis_index),
                         Take(small_boxes[cis_index + 1], CisLen)),
                 cis_index + 1)

(* for _ in range(kis_per_block), from pass count on: the cis elements  *)
(* of one pack_content; exhausted tells whether the break was taken     *)
RECURSIVE CisLoop(_, _, _, _, _, _)
CisLoop(count, kis_per_block, small_boxes, cis, cdata_map, cis_index) ==
    IF count >= kis_per_block
    THEN [cis |-> cis, cdata_map |-> cdata_map, cis_index |-> cis_index,
          exhausted |-> FALSE]
    ELSE IF cis_index >= Len(small_boxes)
    THEN [cis |-> cis, cdata_map |-> cdata_map, cis_index |-> cis_index,
          exhausted |-> TRUE]
    ELSE CisLoop(count + 1, kis_per_block, small_boxes,
                 Append(cis, Placeholder(cis_index)),
                 DictSet(cdata_map, Placeholder(cis_index),
                         Take(small_boxes[cis_index + 1], CisLen)),
                 cis_index + 1)

(* for pack_index, pack_code in enumerate(middle_boxes), from           *)
(* pack_index on                                                        *)
RECURSIVE PackLoop(_, _, _, _, _, _, _, _)
PackLoop(pack_index, middle_boxes, small_boxes, kis_per_block, pack_content, cdata_map, cis_index, exhausted) ==
    IF pack_index >= Len(middle_boxes)
    THEN [pack_content |-> pack_content, cdata_map |-> cdata_map,
          exhausted |-> exhausted]
    ELSE LET pack_code == middle_boxes[pack_index + 1]
             inner == CisLoop(0, kis_per_block, small_boxes, <<>>, cdata_map,
                              cis_index)
         IN  PackLoop(pack_index + 1, middle_boxes, small_boxes, kis_per_block,
                      Append(pack_content,
                             [pack_code |-> escape(Take(pack_code, PackCodeLen)),
                              cis       |-> inner.cis]),
                      inner.cdata_map, inner.cis_index,
                      exhausted \/ inner.exhausted)

(* create_aggregation_xml: the error raised, or the tree and the        *)
(* placeholder map returned; exhausted records whether the loop was     *)
(* ever left for want of codes                                          *)
create_aggregation_xml(middle_boxes, small_boxes, lp_tin) ==
    LET error == CheckBoxes(middle_boxes, small_boxes)
    IN  IF error # NoAggError THEN [exc |-> error, returned |-> <<>>]
        ELSE
        LET kis_per_block == Len(small_boxes) \div Len(middle_boxes)
            built == PackLoop(0, middle_boxes, small_boxes, kis_per_block,
                              <<>>, <<>>, 0, FALSE)
        IN  [exc |-> NoAggError,
             returned |-> <<[root |-> [LP_TIN |-> lp_tin,
                                       pack_content |-> built.pack_content],
                             cdata_map |-> built.cdata_map,
                             exhausted |-> built.exhausted]>>]

(* bytes.replace(old, new) *)
RECURSIVE Replace(_, _, _)
Replace(text, old, new) ==
    IF Len(text) < Len(old) THEN text
    ELSE IF SubSeq(text, 1, Len(old)) = old
    THEN new \o Replace(SubSeq(text, Len(old) + 1, Len(text)), old, new)
    ELSE <<Head(text)>> \o Replace(Tail(text), old, new)

(* for placeholder, original_code in cdata_map.items(): replace *)
RECURSIVE ReplaceAll(_, _)
ReplaceAll(text, cdata_map) ==
    IF cdata_map = <<>> THEN text
    ELSE ReplaceAll(Replace(text, Head(cdata_map).placeholder,
                            CData(Head(cdata_map).original_code)),
                    Tail(cdata_map))

(* format_xml: ET.tostring escapes the text of every element, minidom   *)
(* parses it back and toprettyxml escapes it again; the placeholders    *)
(* are then replaced in the bytes. A placeholder holds no character of  *)
(* the markup, so the replacement is made text by text                  *)
format_xml(root, cdata_map) ==
    [LP_TIN |-> root.LP_TIN,
     pack_content |->
         [p \in DOMAIN root.pack_content |->
             [pack_code |->
                  ReplaceAll(escape(root.pack_content[p].pack_code),
                             cdata_map),
              cis |->
                  [k \in DOMAIN root.pack_content[p].cis |->
                      ReplaceAll(escape(root.pack_content[p].cis[k]),
                                 cdata_map)]]]]

----------------------------------------------------------------------------
(* The run of main over two .txt files *)

MaxMiddle == 2
MaxSmall == 4

(* A code longer than a pack_code may be, with a character to escape *)
LongCode == [k \in 1..(PackCodeLen + 1) |-> IF k = 2 THEN "&" ELSE "a"]

MiddleLines == {<<"a", "b">>, LongCode, <<"a", GS, "b">>}
SmallLines == {<<"a", "b">>, LongCode, <<" ">>}

(* A file that is not there *)
Missing == [exists |-> FALSE, lines |-> <<>>]
TxtFile(lines) == [exists |-> TRUE, lines |-> lines]

InitAgg ==
    /\ rev = "script"
    /\ qr_xlsx = <<>>
    /\ fort_qr = <<>>
    /\ pc = "main"
    /\ row_pos = 0
    /\ master_row = NoRow
    /\ unit_pool = <<>>
    /\ output_df = <<>>
    /\ row_index = 0
    /\ exc = NoExc
    /\ workbook = NoFile
    /\ qr_reads = 0
    /\ call = NoCall
    /\ \E middle_file \in {TxtFile(l) : l \in SeqsUpTo(MiddleLines, MaxMiddle)}
                           \cup {Missing} :
       \E small_file \in {TxtFile(l) : l \in SeqsUpTo(SmallLines, MaxSmall)}
                          \cup {Missing} :
          agg = [fn           |-> "main",
                 middle_file  |-> middle_file,
                 small_file   |-> small_file,
                 inn          |-> LP_TIN,
                 middle_boxes |-> <<>>,
                 small_boxes  |-> <<>>,
                 exc          |-> NoAggError,
                 returned     |-> <<>>,
                 output       |-> <<>>,
                 status       |-> None]

AggUnchanged ==
    UNCHANGED <<rev, qr_xlsx, fort_qr, row_pos, master_row, unit_pool,
                output_df, row_index, exc, workbook, qr_reads, call>>

(* The first try of main: both files are read, a missing one ends the   *)
(* run with 1                                                           *)
MainReadCodes ==
    /\ pc = "main"
    /\ IF ~agg.middle_file.exists \/ ~agg.small_file.exists
       THEN /\ agg' = [agg EXCEPT
                          !.exc = [NoAggError EXCEPT
                                      !.kind = "FileNotFoundError"],
                          !.middle_boxes =
                              IF agg.middle_file.exists
                              THEN read_codes(agg.middle_file.lines)
                              ELSE <<>>,
                          !.status = <<"int", 1>>]
            /\ pc' = "exit"
       ELSE /\ agg' = [agg EXCEPT
                          !.middle_boxes = read_codes(agg.middle_file.lines),
                          !.small_boxes = read_codes(agg.small_file.lines)]
            /\ pc' = "codes"
    /\ AggUnchanged

(* root, cdata_map = create_aggregation_xml(middle_boxes, small_boxes, inn) *)
MainCreateXml ==
    /\ pc = "codes"
    /\ \E r \in {create_aggregation_xml(agg.middle_boxes, agg.small_boxes,
                                        agg.inn)} :
          /\ agg' = [agg EXCEPT !.exc = r.exc, !.returned = r.returned]
          /\ pc' = IF r.exc = NoAggError THEN "created" ELSE "raised"
    /\ AggUnchanged

(* pretty_xml = format_xml(root, cdata_map); f.write(pretty_xml); return 0 *)
MainWriteXml ==
    /\ pc = "created"
    /\ agg' = [agg EXCEPT
                  !.output = <<format_xml(agg.returned[1].root,
                                          agg.returned[1].cdata_map)>>,
                  !.status = <<"int", 0>>]
    /\ pc' = "exit"
    /\ AggUnchanged

(* except ValueError as e: print, return 1 *)
MainExcept ==
    /\ pc = "raised"
    /\ agg.exc.kind = "ValueError"
    /\ agg' = [agg EXCEPT !.status = <<"int", 1>>]
    /\ pc' = "exit"
    /\ AggUnchanged

NextAgg == MainReadCodes \/ MainCreateXml \/ MainWriteXml \/ MainExcept

SpecAgg == InitAgg /\ [][NextAgg]_vars

----------------------------------------------------------------------------
(* create_aggregation_xml and format_xml called on lists of codes *)

MaxGroups == 1
MaxItems == 2

(* Codes: empty, plain, with the characters of the markup, over the     *)
(* limits, and one that reads like a placeholder                        *)
CodeSamples ==
    {<<>>, <<"a", "b">>, <<"a", "&", "b">>, <<"<", ">">>, LongCode,
     Placeholder(1)}

XmlCalls ==
    {[fn           |-> "create_aggregation_xml",
      middle_boxes |-> middle_boxes,
      small_boxes  |-> small_boxes,
      lp_tin       |-> LP_TIN,
      exc          |-> NoAggError,
      returned     |-> <<>>,
      pretty_xml   |-> <<>>,
      at           |-> "called"] :
        middle_boxes \in SeqsUpTo(CodeSamples, MaxGroups) \ {<<>>},
        small_boxes \in SeqsUpTo(CodeSamples, MaxItems)}

InitXml ==
    /\ rev = "script"
    /\ qr_xlsx = <<>>
    /\ fort_qr = <<>>
    /\ pc = "call"
    /\ row_pos = 0
    /\ master_row = NoRow
    /\ unit_pool = <<>>
    /\ output_df = <<>>
    /\ row_index = 0
    /\ exc = NoExc
    /\ workbook = NoFile
    /\ qr_reads = 0
    /\ call \in XmlCalls
    /\ agg = NoAgg

CallUnchanged ==
    UNCHANGED <<rev, qr_xlsx, fort_qr, pc, row_pos, master_row, unit_pool,
                output_df, row_index, exc, workbook, qr_reads, agg>>

(* root, cdata_map = create_aggregation_xml(middle_boxes, small_boxes, inn) *)
CallCreateAggregationXml ==
    /\ pc = "call"
    /\ call.fn = "create_aggregation_xml"
    /\ call.at = "called"
    /\ \E r \in {create_aggregation_xml(call.middle_boxes, call.small_boxes,
                                        call.lp_tin)} :
          call' = [call EXCEPT !.exc = r.exc, !.returned = r.returned,
                               !.at = IF r.exc = NoAggError THEN "created"
                                      ELSE "raised"]
    /\ CallUnchanged

(* pretty_xml = format_xml(root, cdata_map) *)
CallFormatXml ==
    /\ pc = "call"
    /\ call.fn = "create_aggregation_xml"
    /\ call.at = "created"
    /\ call' = [call EXCEPT
                   !.pretty_xml = <<format_xml(call.returned[1].root,
                                               call.returned[1].cdata_map)>>,
                   !.at = "formatted"]
    /\ CallUnchanged

NextXml == CallCreateAggregationXml \/ CallFormatXml

SpecXml == InitXml /\ [][NextXml]_vars

----------------------------------------------------------------------------
(* clean_code called on a string, and again on what it returned *)

MaxLen == 3

(* Control characters, the space, printable ones, DEL, one above ASCII *)
Chars == {"NUL", GS, "US", " ", "a", "~", "DEL", "e'"}

InitClean ==
    /\ rev = "script"
    /\ qr_xlsx = <<>>
    /\ fort_qr = <<>>
    /\ pc = "call"
    /\ row_pos = 0
    /\ master_row = NoRow
    /\ unit_pool = <<>>
    /\ output_df = <<>>
    /\ row_index = 0
    /\ exc = NoExc
    /\ workbook = NoFile
    /\ qr_reads = 0
    /\ \E code \in SeqsUpTo(Chars, MaxLen) :
          call = [fn |-> "clean_code", code |-> code, calls |-> 0,
                  cleaned |-> <<>>, again |-> <<>>]
    /\ agg = NoAgg

(* cleaned = clean_code(code) *)
CallCleanCode ==
    /\ pc = "call"
    /\ call.fn = "clean_code"
    /\ call.calls = 0
    /\ call' = [call EXCEPT !.cleaned = clean_code(call.code), !.calls = 1]
    /\ CallUnchanged

(* again = clean_code(cleaned) *)
CallCleanCodeAgain ==
    /\ pc = "call"
    /\ call.fn = "clean_code"
    /\ call.calls = 1
    /\ call' = [call EXCEPT !.again = clean_code(call.cleaned), !.calls = 2]
    /\ CallUnchanged

NextClean == CallCleanCode \/ CallCleanCodeAgain

SpecClean == InitClean /\ [][NextClean]_vars

----------------------------------------------------------------------------
(* What the claims speak of, read off the code file and the master row *)

(* A step of process_data's loop *)
Processed == pc = "iter" /\ pc' \in {"iter", "raised"}

(* The lines of the code file tagged with the GTIN of a cell *)
TaggedWith(cell) ==
    SelectSeq(qr_xlsx, LAMBDA r : notna(cell) /\ r.GTIN[2] = cell[2])

(* Two buyer-key cells read as the same text: equal keys, or both empty *)
SameKeyText(a, b) ==
    \/ notna(a) /\ notna(b) /\ a[2] = b[2]
    \/ ~notna(a) /\ ~notna(b)

(* The marking codes of rows, in row order *)
Codes(rows) == [k \in DOMAIN rows |-> rows[k].identificationCode]

(* The unit-level lines a revision selects for a master row *)
SelectedPool(row) ==
    IF rev = "script" THEN TaggedWith(row.GTIN)
    ELSE SelectSeq(TaggedWith(row.GTIN),
                   LAMBDA r : SameKeyText(r.buyerSKU, row.SKU))

----------------------------------------------------------------------------
(* C1: script.py, a master row whose unit pool of n codes has           *)
(* n % SIZE5 = 0 and n % SIZE2 = 0 adds exactly n rows after the rows   *)
(* already emitted, labelled on without gaps, carrying the pool's codes *)
(* in pool order, rows of one chunk of SIZE5 sharing their ancestor     *)
(* codes; what is saved at the end is that frame.                       *)
C1_Step ==
    LET row  == master_row'
        pool == TaggedWith(row.GTIN)
        n    == Len(pool)
        c    == row.SIZE5[2]
        g    == row.SIZE2[2]
        old  == Len(output_df)
    IN  /\ (Processed /\ rev = "script" /\ notna(row.SIZE2)
              /\ n % c = 0 /\ n % g = 0)
           => /\ exc' = NoExc
              /\ row_index' = row_index + n
              /\ Len(output_df') = row_index'
              /\ SubSeq(output_df', 1, old) = output_df
              /\ \A k \in 1..n :
                    output_df'[old + k].identificationCode
                        = pool[k].identificationCode
              /\ \A j, k \in 1..n :
                    (j - 1) \div c = (k - 1) \div c
                    => /\ output_df'[old + j].identificationCodeOuter
                            = output_df'[old + k].identificationCodeOuter
                       /\ output_df'[old + j].identificationCodeCase
                            = output_df'[old + k].identificationCodeCase
        /\ (rev = "script" /\ pc' = "done" /\ pc # "done")
           => workbook' = output_df /\ Len(workbook') = row_index

C1_RowsInPoolOrder == [][C1_Step]_vars

C1_Witness ==
    /\ rev = "script" /\ pc = "done" /\ row_pos = 3
    /\ master_row.SIZE5 = <<"num", 1>> /\ master_row.SIZE2 = <<"num", 2>>
    /\ [k \in 1..Len(workbook) |-> workbook[k].identificationCode]
         = << <<"code", 2>>, <<"code", 4>>, <<"code", 2>>, <<"code", 4>> >>

(* C2: a master row whose unit pool of n codes has n % SIZE5 # 0 raises *)
(* the ValueError of the remainder check, reporting n, SIZE5 and        *)
(* n % SIZE5, also when n % SIZE2 # 0; it adds no row and nothing is    *)
(* written.                                                             *)
C2_Step ==
    LET row == master_row'
        n   == Len(SelectedPool(row))
        c   == row.SIZE5[2]
    IN  (Processed /\ notna(row.GTIN) /\ n % c # 0)
        => /\ pc' = "raised"
           /\ exc'.kind = "ValueError" /\ exc'.check = "case"
           /\ exc'.total = n
           /\ exc'.capacity = <<"int", c>>
           /\ exc'.remainder = n % c
           /\ output_df' = output_df
           /\ row_index' = row_index
           /\ workbook' = NoFile

C2_UnevenCase == [][C2_Step]_vars

C2_Witness ==
    /\ rev = "script" /\ pc = "raised"
    /\ exc.check = "case" /\ exc.total = 3 /\ exc.remainder = 1
    /\ master_row.SIZE2 = <<"num", 2>>
    /\ Len(output_df) = 3

(* C3: once a divisibility check has failed no further master row is    *)
(* processed, the frame is left as it is and no workbook is written,    *)
(* whatever was allocated before the failure.                           *)
C3_Step ==
    /\ exc'.kind = "ValueError" => workbook' = NoFile
    /\ exc.kind = "ValueError"
       => /\ exc' = exc
          /\ master_row' = master_row
          /\ row_pos' = row_pos
          /\ output_df' = output_df
          /\ row_index' = row_index
          /\ pc' = "failed"

C3_FailFast == [][C3_Step]_vars

C3_Witness ==
    /\ pc = "failed" /\ exc.kind = "ValueError" /\ row_pos = 2
    /\ Len(output_df) > 0 /\ workbook = NoFile

(* C4 as claimed: a master row with n % SIZE5 = 0 and n % SIZE2 # 0     *)
(* raises the ValueError of the master-case check, which reports the    *)
(* total n, the capacity SIZE2 and the remainder n % SIZE2.             *)
C4_Claim ==
    LET row == master_row
        n   == Len(SelectedPool(row))
    IN  (/\ pc \in {"iter", "raised"} /\ row # NoRow
         /\ notna(row.GTIN) /\ notna(row.SIZE2)
         /\ n % row.SIZE5[2] = 0 /\ n % row.SIZE2[2] # 0)
        => /\ exc.kind = "ValueError" /\ exc.check = "master"
           /\ exc.total = n
           /\ exc.capacity = <<"int", row.SIZE2[2]>>
           /\ exc.remainder = n % row.SIZE2[2]

(* C5 as claimed: all rows of chunk i of an entry with SIZE5 = c and    *)
(* SIZE2 = g carry the GTIN Case code at position floor(i / (g / c)) of *)
(* the GTIN Case pool, None when that position is outside the pool.     *)
C5_Claim ==
    (call.fn = "_process_chunks" /\ call.returned)
    => LET c        == call.size5[2]
           g        == call.size2[2]
           position == (call.chunk_num * c) \div g
           expected == IF position < Len(call.case_rows)
                       THEN call.case_rows[position + 1].identificationCode
                       ELSE None
       IN  /\ Len(call.rows) = c
           /\ \A k \in DOMAIN call.rows :
                 call.rows[k].identificationCodeCase = expected

(* C6 as claimed: the rows of chunk i of an entry carry the GTIN Outer  *)
(* code at position i of the GTIN Outer pool when the pool is that long *)
(* and None otherwise, and a pool shorter than the number of chunks     *)
(* never makes process_data raise.                                      *)
C6_Claim ==
    /\ exc.kind # "IndexError"
    /\ (pc = "iter" /\ master_row # NoRow /\ notna(master_row.GTIN))
       => LET n        == Len(SelectedPool(master_row))
              c        == master_row.SIZE5[2]
              casePool == TaggedWith(master_row.GTIN_Outer)
              first    == Len(output_df) - n
          IN  \A k \in 1..n :
                 LET i == (k - 1) \div c
                 IN  output_df[first + k].identificationCodeOuter
                       = IF i < Len(casePool)
                         THEN casePool[i + 1].identificationCode
                         ELSE None

(* C7 as claimed: script.py, a master row without SIZE2 whose unit pool *)
(* is cut evenly by SIZE5 raises no error on account of the absent      *)
(* capacity.                                                            *)
C7_Claim ==
    (/\ rev = "script" /\ pc \in {"iter", "raised"} /\ master_row # NoRow
     /\ ~notna(master_row.SIZE2)
     /\ Len(SelectedPool(master_row)) % master_row.SIZE5[2] = 0)
    => exc = NoExc

(* C8 as claimed: the unit pool of a master row is the lines tagged     *)
(* with its GTIN, less those whose buyer key differs from the row's     *)
(* when both the line and the row carry a key.                          *)
C8_Claim ==
    LET row     == master_row
        claimed == SelectSeq(TaggedWith(row.GTIN),
                             LAMBDA r : (notna(r.buyerSKU) /\ notna(row.SKU))
                                        => r.buyerSKU[2] = row.SKU[2])
    IN  row # NoRow => Codes(unit_pool) = Codes(claimed)

(* C8: the unit pool of a master row is, in file order, the lines       *)
(* tagged with its GTIN; the sku revision keeps of them the lines whose *)
(* buyerSKU reads as the same text as the row's SKU, an empty cell      *)
(* reading the same as an empty cell only; script.py keeps them all.    *)
C8_PoolSelection ==
    master_row # NoRow => Codes(unit_pool) = Codes(SelectedPool(master_row))

C8_Witness ==
    /\ rev = "sku" /\ pc = "iter" /\ notna(master_row.SKU)
    /\ Len(unit_pool) > 0
    /\ Len(unit_pool) < Len(TaggedWith(master_row.GTIN))
    /\ Len(output_df) > 0

(* C9: a master row without a GTIN adds no row and raises nothing; the  *)
(* frame and the row index stay as they were and the loop goes on to    *)
(* the next row.                                                        *)
C9_Step ==
    (Processed /\ ~notna(master_row'.GTIN))
    => /\ exc' = NoExc
       /\ pc' = "iter"
       /\ row_pos' = row_pos + 1
       /\ output_df' = output_df
       /\ row_index' = row_index
       /\ workbook' = workbook

C9_MissingGtinSkipped == [][C9_Step]_vars

C9_Witness ==
    /\ pc = "iter" /\ master_row # NoRow /\ ~notna(master_row.GTIN)
    /\ row_pos = 3 /\ exc = NoExc
    /\ Len(output_df) > 0 /\ row_index = Len(output_df)

(* C10: create_aggregation_xml raises the ValueError of the uneven     *)
(* distribution whenever the block file holds codes and the number of   *)
(* unit codes is not a multiple of their number; it then returns no     *)
(* tree and no placeholder map, main writes no file and ends with 1.    *)
C10_UnevenItems ==
    (/\ agg.fn = "main" /\ pc \in {"created", "raised", "exit"}
     /\ Len(agg.middle_boxes) > 0
     /\ agg.exc.kind # "FileNotFoundError"
     /\ Len(agg.small_boxes) % Len(agg.middle_boxes) # 0)
    => /\ pc # "created"
       /\ agg.exc = AggError("uneven", Len(agg.small_boxes),
                             Len(agg.middle_boxes))
       /\ agg.returned = <<>>
       /\ agg.output = <<>>
       /\ pc = "exit" => agg.status = <<"int", 1>>

C10_Witness ==
    /\ agg.fn = "main" /\ pc = "exit"
    /\ Len(agg.middle_boxes) = 2 /\ Len(agg.small_boxes) = 3
    /\ agg.exc.check = "uneven"
    /\ agg.output = <<>> /\ agg.status = <<"int", 1>>

(* C11: create_aggregation_xml raises the ValueError of the empty      *)
(* block file whenever middle_boxes is empty, whatever small_boxes      *)
(* holds; the check comes before any division by len(middle_boxes), so  *)
(* no ZeroDivisionError arises; nothing is returned, main writes no     *)
(* file and ends with 1.                                                *)
C11_EmptyGroups ==
    /\ agg.fn = "main" => agg.exc.kind # "ZeroDivisionError"
    /\ (/\ agg.fn = "main" /\ pc \in {"created", "raised", "exit"}
        /\ agg.exc.kind # "FileNotFoundError"
        /\ Len(agg.middle_boxes) = 0)
       => /\ pc # "created"
          /\ agg.exc = AggError("empty", Len(agg.small_boxes), 0)
          /\ agg.returned = <<>>
          /\ agg.output = <<>>
          /\ pc = "exit" => agg.status = <<"int", 1>>

C11_Witness ==
    /\ agg.fn = "main" /\ pc = "exit" /\ agg.middle_file.exists
    /\ Len(agg.middle_boxes) = 0 /\ Len(agg.small_boxes) = 2
    /\ agg.exc.check = "empty"
    /\ agg.output = <<>> /\ agg.status = <<"int", 1>>

(* C12: when create_aggregation_xml returns, with                      *)
(* k = len(small_boxes) / len(middle_boxes), the tree holds one         *)
(* pack_content for each block code, in the order of middle_boxes, and  *)
(* pack_content j holds k cis elements whose placeholders stand, in     *)
(* order, for small_boxes[j*k : (j+1)*k]; every unit code stands behind *)
(* exactly one placeholder and the loop is never left for want of codes.*)
C12_GroupsInOrder ==
    (agg.fn = "main" /\ agg.returned # <<>>)
    => LET r      == agg.returned[1]
           middle == agg.middle_boxes
           small  == agg.small_boxes
           packs  == r.root.pack_content
           k      == Len(small) \div Len(middle)
       IN  /\ ~r.exhausted
           /\ Len(packs) = Len(middle)
           /\ Len(r.cdata_map) = Len(small)
           /\ \A j \in DOMAIN packs :
                 /\ packs[j].pack_code = escape(Take(middle[j], PackCodeLen))
                 /\ Len(packs[j].cis) = k
                 /\ \A i \in 1..k :
                       \A n \in DOMAIN r.cdata_map :
                          r.cdata_map[n].placeholder = packs[j].cis[i]
                          <=> n = (j - 1) * k + i
           /\ \A n \in DOMAIN r.cdata_map :
                 r.cdata_map[n].original_code = Take(small[n], CisLen)

C12_Witness ==
    /\ agg.fn = "main" /\ pc = "exit" /\ agg.status = <<"int", 0>>
    /\ Len(agg.middle_boxes) = 2 /\ Len(agg.small_boxes) = 4
    /\ agg.small_boxes[1] # agg.small_boxes[2]
    /\ agg.small_boxes[3] # agg.small_boxes[4]
    /\ Len(agg.returned[1].root.pack_content[2].cis) = 2

(* Reading character data back as an XML reader does: a CDATA section  *)
(* gives its content as it stands, &amp; &lt; &gt; give & < >; a bare & *)
(* or <, or an unclosed section, is not well formed                     *)
StartsWith(text, prefix) ==
    Len(text) >= Len(prefix) /\ SubSeq(text, 1, Len(prefix)) = prefix

Drop(text, n) == SubSeq(text, n + 1, Len(text))

RECURSIVE ParseCData(_, _)
ParseCData(text, content) ==
    IF text = <<>> THEN [ok |-> FALSE, text |-> content, rest |-> <<>>]
    ELSE IF StartsWith(text, <<"]", "]", ">">>)
    THEN [ok |-> TRUE, text |-> content, rest |-> Drop(text, 3)]
    ELSE ParseCData(Tail(text), Append(content, Head(text)))

RECURSIVE ParseText(_)
ParseText(text) ==
    IF text = <<>> THEN [ok |-> TRUE, text |-> <<>>]
    ELSE LET then(n, read) ==
                 LET more == ParseText(Drop(text, n))
                 IN  [ok |-> more.ok, text |-> read \o more.text]
         IN  IF StartsWith(text, SubSeq(CData(<<>>), 1, 9))
             THEN LET section == ParseCData(Drop(text, 9), <<>>)
                      more    == ParseText(section.rest)
                  IN  [ok   |-> section.ok /\ more.ok,
                       text |-> section.text \o more.text]
             ELSE IF StartsWith(text, <<"&", "a", "m", "p", ";">>)
             THEN then(5, <<"&">>)
             ELSE IF StartsWith(text, <<"&", "l", "t", ";">>)
             THEN then(4, <<"<">>)
             ELSE IF StartsWith(text, <<"&", "g", "t", ";">>)
             THEN then(4, <<">">>)
             ELSE IF Head(text) \in {"&", "<"}
             THEN [ok |-> FALSE, text |-> <<>>]
             ELSE then(1, <<Head(text)>>)

(* C13 as claimed: when every block code has at most 25 characters and  *)
(* every unit code at most 21, reading the text format_xml returns      *)
(* gives back each block code and each unit code as it was. Codes that  *)
(* hold the text of a placeholder are left to C14.                      *)
C13_Claim ==
    (/\ call.fn = "create_aggregation_xml" /\ call.at = "formatted"
     /\ \A code \in {call.middle_boxes[j] : j \in DOMAIN call.middle_boxes}
                   \cup {call.small_boxes[n] : n \in DOMAIN call.small_boxes} :
           \A k \in DOMAIN code : code[k] # "_"
     /\ \A j \in DOMAIN call.middle_boxes :
           Len(call.middle_boxes[j]) <= PackCodeLen
     /\ \A n \in DOMAIN call.small_boxes :
           Len(call.small_boxes[n]) <= CisLen)
    => LET packs == call.pretty_xml[1].pack_content
           k     == Len(call.small_boxes) \div Len(call.middle_boxes)
       IN  \A j \in DOMAIN packs :
              /\ ParseText(packs[j].pack_code)
                   = [ok |-> TRUE, text |-> call.middle_boxes[j]]
              /\ \A i \in DOMAIN packs[j].cis :
                    ParseText(packs[j].cis[i])
                      = [ok |-> TRUE,
                         text |-> call.small_boxes[(j - 1) * k + i]]

(* C14 as claimed: in the text format_xml returns, the k-th cis element *)
(* holds the CDATA section of the first 21 characters of the k-th unit  *)
(* code as they stand, the placeholders are pairwise distinct, and the  *)
(* replacement changes nothing else: every pack_code is what the        *)
(* serialiser wrote; for all codes, those reading like a placeholder    *)
(* included.                                                            *)
C14_Claim ==
    (call.fn = "create_aggregation_xml" /\ call.at = "formatted")
    => LET packs     == call.pretty_xml[1].pack_content
           root      == call.returned[1].root
           cdata_map == call.returned[1].cdata_map
           k         == Len(call.small_boxes) \div Len(call.middle_boxes)
       IN  /\ \A m, n \in DOMAIN cdata_map :
                 cdata_map[m].placeholder = cdata_map[n].placeholder => m = n
           /\ \A j \in DOMAIN packs :
                 /\ packs[j].pack_code = escape(root.pack_content[j].pack_code)
                 /\ \A i \in DOMAIN packs[j].cis :
                       packs[j].cis[i]
                         = CData(Take(call.small_boxes[(j - 1) * k + i],
                                      CisLen))

(* C15 as claimed: whenever create_aggregation_xml returns a tree, the  *)
(* code stored for pack_content j is the first min(len, 25) characters  *)
(* of middle_boxes[j] and the content stored for unit code n is the     *)
(* first min(len, 21) characters of small_boxes[n], whatever the        *)
(* lengths, the empty code included.                                    *)
C15_Claim ==
    (call.fn = "create_aggregation_xml" /\ call.returned # <<>>)
    => LET root      == call.returned[1].root
           cdata_map == call.returned[1].cdata_map
       IN  /\ \A j \in DOMAIN root.pack_content :
                 LET code == call.middle_boxes[j]
                 IN  root.pack_content[j].pack_code
                       = SubSeq(code, 1, Min(Len(code), PackCodeLen))
           /\ \A n \in DOMAIN cdata_map :
                 LET code == call.small_boxes[n]
                 IN  cdata_map[n].original_code
                       = SubSeq(code, 1, Min(Len(code), CisLen))

(* C16: clean_code returns for every string; what it returns is the    *)
(* string's characters of code point 0x20 and above other than 0x7F,    *)
(* all of them and in their order; it is no longer than the string, and *)
(* cleaning it again changes nothing.                                   *)
C16_CleanCode ==
    LET kept(code) == {k \in DOMAIN code :
                          ord(code[k]) >= 32 /\ ord(code[k]) # 127}
    IN  /\ (call.fn = "clean_code" /\ call.calls >= 1)
           => /\ Len(call.cleaned) <= Len(call.code)
              /\ Len(call.cleaned) = Cardinality(kept(call.code))
              /\ \A n \in DOMAIN call.cleaned :
                    \E k \in kept(call.code) :
                       /\ call.code[k] = call.cleaned[n]
                       /\ Cardinality({m \in kept(call.code) : m <= k}) = n
        /\ (call.fn = "clean_code" /\ call.calls = 2)
           => call.again = call.cleaned

C16_Witness ==
    /\ call.fn = "clean_code" /\ call.calls = 2
    /\ call.code = <<" ", GS, "DEL">>
    /\ call.cleaned = <<" ">> /\ call.again = <<" ">>

(* C17 as claimed: in one run the code file is read exactly once, by    *)
(* load_data, and never again while master rows and chunks are          *)
(* processed.                                                           *)
C17_Claim ==
    /\ qr_reads <= 1
    /\ pc \in {"loaded", "iter", "raised", "failed", "done"} => qr_reads = 1

(* C18 as claimed: script.py, a master row that passes both checks      *)
(* gives no GTIN Case code to more than SIZE2 of the rows it adds,      *)
(* whatever SIZE5 and SIZE2 are.                                        *)
C18_Claim ==
    (/\ rev = "script" /\ pc = "iter" /\ master_row # NoRow
     /\ notna(master_row.SIZE2) /\ exc = NoExc)
    => LET n     == Len(unit_pool)
           first == Len(output_df) - n
           added == {first + k : k \in 1..n}
       IN  \A p \in 1..MaxCodes :
              Cardinality({k \in added :
                              output_df[k].identificationCodeCase
                                = <<"code", p>>})
                <= master_row.SIZE2[2]

(* C19 as claimed: in the workbook a run saves, no unit-level code of   *)
(* the code file stands in more than one row, also when several master  *)
(* rows carry the same GTIN.                                            *)
C19_Claim ==
    pc = "done"
    => \A j, k \in DOMAIN workbook :
          workbook[j].identificationCode = workbook[k].identificationCode
          => j = k

====
